---- MODULE Spec2Model ----
(***************************************************************************)
(* Model of ModernEmbedded (src/main.cpp): the Scheduler's tick loop, the  *)
(* Controller's component lifecycle and the EventBus with its mutex.       *)
(*                                                                         *)
(* The specifications share the variables:                                 *)
(*   Spec         the control thread driving Controller and Scheduler      *)
(*   MainSpec     the same, with the arguments main() passes               *)
(*   BusSpec      threads calling EventBus::registerHandler and emit       *)
(*   FairBusSpec  BusSpec, every thread inside a call keeps taking steps   *)
(* main() wires no handler to the Controller, so the two halves share no   *)
(* state and are explored separately.                                      *)
(***************************************************************************)
EXTENDS Integers, Sequences, FiniteSets, TLC

\* ------------------------------------------------------------------ bounds
\* calls of addComponent (failed ones included) and run explored
MaxCalls == 4
\* how many times time may pass beyond the nominal sleeps: a sleep that
\* overshoots or an action that is slow (LateMs), a pause between calls (GapMs)
MaxDelays == 1
\* threads calling the EventBus
NThreads == 2
\* registerHandler and emit calls explored, over all threads
MaxOps == 4

\* ------------------------------------------------------- program constants
\* std::this_thread::sleep_for(std::chrono::milliseconds(50))
SleepMs == 50
\* system.run(10)
MainCycles == 10
\* system.addComponent(std::make_shared<TemperatureSensor>(), 500)
PeriodA == 500
\* system.addComponent(std::make_shared<LED>(), 700)
PeriodB == 700

\* --------------------------------------------------------- input domains
\* Component objects handed to the Controller (object identity).
Comps == {"A", "B"}
\* Components whose init() or update() may throw.
MayThrow == {"B"}
\* intervalMs arguments tried
Periods == {0, 2 * SleepMs, 3 * SleepMs}
\* cycles arguments tried
CycleArgs == {0, 1, 3}
\* intervalMs and cycles arguments of main()
MainPeriods == {PeriodA, PeriodB}
MainCycleArgs == {MainCycles}
\* Event::type values
Types == {"K", "L"}
\* What a registered handler does when invoked: "count" counts the delivery and
\* returns, "throw" throws, "reenter" calls registerHandler or emit on the bus
\* that is invoking it.
Kinds == {"count", "throw", "reenter"}
Threads == 1..NThreads
\* extra time a sleep overshoots or a slow action takes
LateMs == SleepMs
\* time the caller lets pass between two calls
GapMs == 6 * SleepMs

VARIABLES
    clock,       \* std::chrono::steady_clock, in ms since construction
    components,  \* Controller::components
    tasks,       \* Scheduler::tasks: records [func, intervalMs, nextRun]
    spc,         \* position of the control thread: "idle", "loop", "tasks"
    cycles,      \* argument of the current (or last) run call
    i,           \* run's loop counter: ticks completed by the current (or last) run
    now,         \* run's sampled time of the current tick
    j,           \* index of the task the inner loop is at (1-based)
    result,      \* how the last call ended: "ok", "initThrew", "updateThrew"
    initCalls,   \* history: number of init() calls per component
    updated,     \* history: update() has been called on the component
    lateInit,    \* history: init() was called after an update() of the component
    hist,        \* history, per task: see NewHist
    tickLog,     \* history: indices of the tasks invoked on the current tick, in order
    initOrder,   \* history: the components whose init() returned, in order
    calls, delays   \* counters that bound the exploration

schedVars == <<clock, components, tasks, spc, cycles, i, now, j, result,
               initCalls, updated, lateInit, hist, tickLog, initOrder, calls, delays>>

VARIABLES
    handlers,    \* EventBus::handlers: type -> sequence of [id, kind]; DOMAIN = keys present
    mtx,         \* EventBus::mtx: the set of threads owning it ({} when free)
    th,          \* per thread: see IdleThread
    regLog,      \* history: [type, kind] of each registration, in the order of the calls' returns
    hcalls,      \* history: invocations of each handler, by registration id
    emitsSince,  \* history: emits of its type that looked it up, by registration id
    contended,   \* history: an emit was called while another emit was in progress
    ops          \* counter that bounds the exploration

busVars == <<handlers, mtx, th, regLog, hcalls, emitsSince, contended, ops>>

vars == <<schedVars, busVars>>

\* ------------------------------------------------------------- Scheduler

\* History kept beside each task record:
\*   last    sampled time of its last invocation that returned (<<>>: none yet)
\*   gap     difference of the sampled times of its last two invocations that
\*           returned (<<>>: fewer than two)
\*   runInv  invocations (returned or thrown) during the current run call
\*   old     it was invoked before the current run call began
\*   tick    it was invoked on the current tick
NewHist == [last |-> <<>>, gap |-> <<>>, runInv |-> 0, old |-> FALSE, tick |-> FALSE]

\* Variant: adding a task restarts the due times of the tasks already there.
addTaskRestart(tsks, f, intervalMs, nw) ==
    Append([k \in DOMAIN tsks |-> [tsks[k] EXCEPT !.nextRun = nw]],
           [func |-> f, intervalMs |-> intervalMs, nextRun |-> nw])

\* Variant: the first run is one period after the add (a warm-up delay).
addTaskWarmUp(tsks, f, intervalMs, nw) ==
    Append(tsks, [func |-> f, intervalMs |-> intervalMs, nextRun |-> nw + intervalMs])

\* tasks.push_back({f, intervalMs, steady_clock::now()})
addTask(tsks, f, intervalMs, nw) ==
    Append(tsks, [func |-> f, intervalMs |-> intervalMs, nextRun |-> nw])

\* Variant: a task is due only after its due time has passed.
DueStrictly(nw, t) == nw > t.nextRun

\* if(now >= t.nextRun)
Due(nw, t) == nw >= t.nextRun

\* Variant: catch-up rescheduling, from the previous due time.
RescheduleFromDue(t, nw) == [t EXCEPT !.nextRun = t.nextRun + t.intervalMs]

\* t.nextRun = now + std::chrono::milliseconds(t.intervalMs)
Reschedule(t, nw) == [t EXCEPT !.nextRun = nw + t.intervalMs]

\* Variant: the loop runs once more than asked.
LoopCondInclusive(ii, n) == ii <= n

\* Variant: the body runs before the first test (a do-while loop).
LoopCondAfterBody(ii, n) == ii < n \/ ii = 0

\* for(int i=0; i<cycles; i++): the loop's test
LoopCond(ii, n) == ii < n

\* Variant: the clock is read again for every task.
TickTimeReread(sampled, clk) == clk

\* The time a task is tested against and rescheduled from: `now`, sampled once
\* per tick before the inner loop, whatever the clock has become since.
TickTime(sampled, clk) == sampled

\* Variant: while(now >= t.nextRun), the task is run until it is no longer due.
AfterTaskWhileDue(jj, t, nw) == IF Due(nw, t) THEN jj ELSE jj + 1

\* for(auto& t : tasks): after the if, the loop moves to the next task, t being
\* the record as the pass leaves it.
AfterTask(jj, t, nw) == jj + 1

\* Variant: nextRun is advanced before func is called.
OnThrowRescheduled(t, nw) == Reschedule(t, nw)

\* The task record after t.func() threw: the assignment to nextRun is not reached.
OnThrow(t, nw) == t

\* ------------------------------------------------------------ Controller

\* Variant: the component is stored at the front of the list.
addComponentFront(comps, tsks, c, intervalMs, initOk, nw) ==
    IF initOk
    THEN [components |-> <<c>> \o comps, tasks |-> addTask(tsks, c, intervalMs, nw)]
    ELSE [components |-> comps, tasks |-> tsks]

\* Variant: the component is stored and scheduled before init() is called.
addComponentStoreFirst(comps, tsks, c, intervalMs, initOk, nw) ==
    [components |-> Append(comps, c), tasks |-> addTask(tsks, c, intervalMs, nw)]

\* c->init(); components.push_back(c); scheduler.addTask([c]{ c->update(); }, ms)
\* An init() that throws leaves before the push_back.
addComponent(comps, tsks, c, intervalMs, initOk, nw) ==
    IF initOk
    THEN [components |-> Append(comps, c), tasks |-> addTask(tsks, c, intervalMs, nw)]
    ELSE [components |-> comps, tasks |-> tsks]

SchedInit ==
    /\ clock = 0
    /\ components = <<>>
    /\ tasks = <<>>
    /\ spc = "idle"
    /\ cycles = 0
    /\ i = 0
    /\ now = 0
    /\ j = 1
    /\ result = "ok"
    /\ initCalls = [c \in Comps |-> 0]
    /\ updated = [c \in Comps |-> FALSE]
    /\ lateInit = [c \in Comps |-> FALSE]
    /\ hist = <<>>
    /\ tickLog = <<>>
    /\ initOrder = <<>>
    /\ calls = 0
    /\ delays = 0

\* Controller::addComponent(c, intervalMs), intervalMs drawn from P
AddComponentOf(P) ==
    /\ spc = "idle"
    /\ calls < MaxCalls
    /\ \E c \in Comps, ms \in P, initOk \in BOOLEAN :
        /\ (~initOk) => c \in MayThrow
        /\ LET r == addComponent(components, tasks, c, ms, initOk, clock) IN
            /\ components' = r.components
            /\ tasks' = r.tasks
            /\ hist' = IF Len(r.tasks) > Len(tasks) THEN Append(hist, NewHist) ELSE hist
        /\ initCalls' = [initCalls EXCEPT ![c] = @ + 1]
        /\ lateInit' = [lateInit EXCEPT ![c] = @ \/ updated[c]]
        /\ result' = IF initOk THEN "ok" ELSE "initThrew"
        /\ initOrder' = IF initOk THEN Append(initOrder, c) ELSE initOrder
    /\ calls' = calls + 1
    /\ UNCHANGED <<clock, spc, cycles, i, now, j, updated, tickLog, delays>>
    /\ UNCHANGED busVars

AddComponent == AddComponentOf(Periods)

\* Controller::run(cycles) -> Scheduler::run(cycles): entry, i = 0; cycles drawn from C
RunOf(C) ==
    /\ spc = "idle"
    /\ calls < MaxCalls
    /\ \E n \in C : cycles' = n
    /\ i' = 0
    /\ spc' = "loop"
    /\ result' = "ok"
    /\ calls' = calls + 1
    /\ hist' = [k \in DOMAIN hist |->
                  [hist[k] EXCEPT !.old = @ \/ hist[k].runInv > 0, !.runInv = 0,
                                   !.tick = FALSE]]
    /\ tickLog' = <<>>
    /\ UNCHANGED <<clock, components, tasks, now, j, initCalls, updated, lateInit,
                   initOrder, delays>>
    /\ UNCHANGED busVars

Run == RunOf(CycleArgs)

\* for(...; i<cycles; ...) { auto now = steady_clock::now(); ... } or return
LoopTest ==
    /\ spc = "loop"
    /\ IF LoopCond(i, cycles)
       THEN /\ now' = clock
            /\ j' = 1
            /\ spc' = "tasks"
       ELSE /\ spc' = "idle"
            /\ UNCHANGED <<now, j>>
    /\ UNCHANGED <<clock, components, tasks, cycles, i, result, initCalls,
                   updated, lateInit, hist, tickLog, initOrder, calls, delays>>
    /\ UNCHANGED busVars

\* The history of task record h after an invocation at sampled time nw.
Invoked(h, nw, returned) ==
    [h EXCEPT !.last = IF returned THEN <<nw>> ELSE @,
              !.gap = IF returned /\ Len(h.last) > 0 THEN <<nw - h.last[1]>> ELSE @,
              !.runInv = @ + 1,
              !.tick = TRUE]

\* One pass of for(auto& t : tasks): if due, t.func() then t.nextRun = now + interval.
\* func is c->update(), which may take time and may throw; a throw leaves run.
TaskStep ==
    /\ spc = "tasks"
    /\ j <= Len(tasks)
    /\ LET t == tasks[j]
           nw == TickTime(now, clock)
       IN
        IF Due(nw, t)
        THEN \E ok \in BOOLEAN, slow \in BOOLEAN :
            /\ (~ok) => t.func \in MayThrow
            /\ slow => delays < MaxDelays
            /\ updated' = [updated EXCEPT ![t.func] = TRUE]
            /\ clock' = IF slow THEN clock + LateMs ELSE clock
            /\ delays' = IF slow THEN delays + 1 ELSE delays
            /\ hist' = [hist EXCEPT ![j] = Invoked(@, nw, ok)]
            /\ tickLog' = Append(tickLog, j)
            /\ IF ok
               THEN /\ tasks' = [tasks EXCEPT ![j] = Reschedule(t, nw)]
                    /\ j' = AfterTask(j, Reschedule(t, nw), nw)
                    /\ UNCHANGED <<spc, result, now>>
               ELSE /\ tasks' = [tasks EXCEPT ![j] = OnThrow(t, nw)]
                    /\ spc' = "idle"
                    /\ result' = "updateThrew"
                    /\ j' = 1
                    /\ now' = 0
        ELSE /\ j' = AfterTask(j, t, nw)
             /\ UNCHANGED <<tasks, hist, tickLog, updated, clock, delays, spc, result, now>>
    /\ UNCHANGED <<components, cycles, i, initCalls, lateInit, initOrder, calls>>
    /\ UNCHANGED busVars

\* std::this_thread::sleep_for(50ms) after the inner loop, then i++
Sleep ==
    /\ spc = "tasks"
    /\ j > Len(tasks)
    /\ \E over \in BOOLEAN :
        /\ over => delays < MaxDelays
        /\ clock' = clock + SleepMs + (IF over THEN LateMs ELSE 0)
        /\ delays' = IF over THEN delays + 1 ELSE delays
    /\ i' = i + 1
    /\ spc' = "loop"
    /\ j' = 1
    /\ now' = 0
    /\ hist' = [k \in DOMAIN hist |-> [hist[k] EXCEPT !.tick = FALSE]]
    /\ tickLog' = <<>>
    /\ UNCHANGED <<components, tasks, cycles, result, initCalls,
                   updated, lateInit, initOrder, calls>>
    /\ UNCHANGED busVars

\* The caller lets time pass between two calls.
TimePasses ==
    /\ spc = "idle"
    /\ delays < MaxDelays
    /\ clock' = clock + GapMs
    /\ delays' = delays + 1
    /\ UNCHANGED <<components, tasks, spc, cycles, i, now, j, result,
                   initCalls, updated, lateInit, hist, tickLog, initOrder, calls>>
    /\ UNCHANGED busVars

\* -------------------------------------------------------------- EventBus

\* A thread's position and the locals of its call:
\*   pc    "idle"; registerHandler: "reg_lock" (in lock_guard's constructor),
\*         "reg_cs" (owns mtx, before the push_back); emit: "emit_lock",
\*         "emit_cs" (owns mtx, before handlers.count), "emit_iter" (in the for
\*         loop, between two handlers), "in_handler" (h(evt) is executing),
\*         "relock" (a handler it invoked is in the lock_guard constructor
\*         of a nested call), "stuck" (blocked in that constructor for ever)
\*   op    the current or last call: "none", "reg", "emit"
\*   type  the call's type argument (evt.type)
\*   kind  registerHandler's handler argument
\*   idx   position of the for loop in handlers[evt.type] (1-based)
\*   res   how the last call ended: "ok" or "threw"
\*   seen  history: ids of the handlers this emit invoked, in order
\*   snap  history: ids registered for evt.type when this emit looked the type up
IdleThread ==
    [pc |-> "idle", op |-> "none", type |-> "K", kind |-> "count", idx |-> 0,
     res |-> "ok", seen |-> <<>>, snap |-> <<>>]

\* Variant: no mutual exclusion (the lock_guard left out).
CanLockAlways(m) == TRUE

\* std::lock_guard<std::mutex> lock(mtx) can take the mutex
CanLock(m) == m = {}

\* Variant: the handler is put in front of the sequence.
registerHandlerFront(h, type, handler) ==
    IF type \in DOMAIN h
    THEN [h EXCEPT ![type] = <<handler>> \o @]
    ELSE [x \in DOMAIN h \cup {type} |-> IF x = type THEN <<handler>> ELSE h[x]]

\* handlers[type].push_back(handler): operator[] inserts the key when absent
registerHandler(h, type, handler) ==
    IF type \in DOMAIN h
    THEN [h EXCEPT ![type] = Append(@, handler)]
    ELSE [x \in DOMAIN h \cup {type} |-> IF x = type THEN <<handler>> ELSE h[x]]

\* handlers.count(evt.type): a lookup that does not insert
HasHandlers(h, type) == type \in DOMAIN h

\* Variant: the lookup is handlers[evt.type], which inserts an absent key.
AfterLookupInsert(h, type) ==
    [x \in DOMAIN h \cup {type} |-> IF x \in DOMAIN h THEN h[x] ELSE <<>>]

\* The registry after emit's lookup of a type: count() leaves the map alone, and
\* handlers[evt.type] is evaluated only when the key is present.
AfterLookup(h, type) == h

\* Variant: the loop stops one handler short.
IterSeqButLast(h, type) == SubSeq(h[type], 1, Len(h[type]) - 1)

\* The sequence for(auto& h : handlers[evt.type]) walks
IterSeq(h, type) == h[type]

\* History: the registration ids of a type, in registration order.
Registered(log, type) ==
    SelectSeq([n \in 1..Len(log) |-> n], LAMBDA n : log[n].type = type)

InSeq(x, s) == \E m \in DOMAIN s : s[m] = x

BusInit ==
    /\ handlers = <<>>
    /\ mtx = {}
    /\ th = [t \in Threads |-> IdleThread]
    /\ regLog = <<>>
    /\ hcalls = <<>>
    /\ emitsSince = <<>>
    /\ contended = FALSE
    /\ ops = 0

\* a thread calls bus.registerHandler(type, handler)
RegisterCall(t) ==
    /\ th[t].pc = "idle"
    /\ ops < MaxOps
    /\ \E k \in Types, h \in Kinds :
        th' = [th EXCEPT ![t] = [IdleThread EXCEPT !.pc = "reg_lock", !.op = "reg",
                                                   !.type = k, !.kind = h]]
    /\ ops' = ops + 1
    /\ UNCHANGED <<handlers, mtx, regLog, hcalls, emitsSince, contended>>
    /\ UNCHANGED schedVars

\* a thread calls bus.emit(evt)
EmitCall(t) ==
    /\ th[t].pc = "idle"
    /\ ops < MaxOps
    /\ \E k \in Types :
        th' = [th EXCEPT ![t] = [IdleThread EXCEPT !.pc = "emit_lock", !.op = "emit",
                                                   !.type = k]]
    /\ contended' = (contended \/ \E u \in Threads \ {t} :
                        th[u].op = "emit" /\ th[u].pc \in {"emit_lock", "emit_cs", "emit_iter",
                                                            "in_handler"})
    /\ ops' = ops + 1
    /\ UNCHANGED <<handlers, mtx, regLog, hcalls, emitsSince>>
    /\ UNCHANGED schedVars

\* std::lock_guard<std::mutex> lock(mtx), in registerHandler and in emit
Lock(t) ==
    /\ th[t].pc \in {"reg_lock", "emit_lock"}
    /\ CanLock(mtx)
    /\ mtx' = mtx \cup {t}
    /\ th' = [th EXCEPT ![t].pc = IF th[t].pc = "reg_lock" THEN "reg_cs" ELSE "emit_cs"]
    /\ UNCHANGED <<handlers, regLog, hcalls, emitsSince, contended, ops>>
    /\ UNCHANGED schedVars

\* registerHandler's body and return: the push_back, then lock_guard's destructor
RegisterBody(t) ==
    /\ th[t].pc = "reg_cs"
    /\ LET id == Len(regLog) + 1 IN
        /\ handlers' = registerHandler(handlers, th[t].type, [id |-> id, kind |-> th[t].kind])
        /\ regLog' = Append(regLog, [type |-> th[t].type, kind |-> th[t].kind])
        /\ hcalls' = Append(hcalls, 0)
        /\ emitsSince' = Append(emitsSince, 0)
    /\ mtx' = mtx \ {t}
    /\ th' = [th EXCEPT ![t] = [IdleThread EXCEPT !.op = "reg"]]
    /\ UNCHANGED <<contended, ops>>
    /\ UNCHANGED schedVars

\* emit: if(handlers.count(evt.type)) enter the loop, else return
EmitLookup(t) ==
    /\ th[t].pc = "emit_cs"
    /\ handlers' = AfterLookup(handlers, th[t].type)
    /\ emitsSince' = [n \in DOMAIN emitsSince |->
                        IF regLog[n].type = th[t].type THEN emitsSince[n] + 1 ELSE emitsSince[n]]
    /\ IF HasHandlers(handlers, th[t].type)
       THEN /\ th' = [th EXCEPT ![t].pc = "emit_iter", ![t].idx = 1,
                                ![t].snap = Registered(regLog, th[t].type)]
            /\ UNCHANGED mtx
       ELSE /\ th' = [th EXCEPT ![t].pc = "idle", ![t].res = "ok",
                                ![t].snap = Registered(regLog, th[t].type)]
            /\ mtx' = mtx \ {t}
    /\ UNCHANGED <<regLog, hcalls, contended, ops>>
    /\ UNCHANGED schedVars

\* emit: one pass of the for loop, the call h(evt) enters the handler
EmitInvoke(t) ==
    /\ th[t].pc = "emit_iter"
    /\ th[t].idx <= Len(IterSeq(handlers, th[t].type))
    /\ LET h == IterSeq(handlers, th[t].type)[th[t].idx] IN
        /\ hcalls' = [hcalls EXCEPT ![h.id] = @ + 1]
        /\ th' = [th EXCEPT ![t].pc = "in_handler", ![t].seen = Append(@, h.id)]
    /\ UNCHANGED <<handlers, mtx, regLog, emitsSince, contended, ops>>
    /\ UNCHANGED schedVars

\* The handler emit is executing ends: it returns and the loop goes on, or it
\* throws and the exception leaves emit (lock_guard's destructor unlocks), or
\* it calls registerHandler or emit on this bus and reaches the nested lock_guard.
HandlerEnd(t) ==
    /\ th[t].pc = "in_handler"
    /\ th[t].idx <= Len(IterSeq(handlers, th[t].type))
    /\ LET h == IterSeq(handlers, th[t].type)[th[t].idx] IN
        IF h.kind = "count"
        THEN /\ th' = [th EXCEPT ![t].pc = "emit_iter", ![t].idx = @ + 1]
             /\ UNCHANGED mtx
        ELSE IF h.kind = "throw"
        THEN /\ th' = [th EXCEPT ![t].pc = "idle", ![t].res = "threw"]
             /\ mtx' = mtx \ {t}
        ELSE /\ th' = [th EXCEPT ![t].pc = "relock"]
             /\ UNCHANGED mtx
    /\ UNCHANGED <<handlers, regLog, hcalls, emitsSince, contended, ops>>
    /\ UNCHANGED schedVars

\* emit: the loop is over; lock_guard's destructor, return
EmitReturn(t) ==
    /\ th[t].pc = "emit_iter"
    /\ th[t].idx > Len(IterSeq(handlers, th[t].type))
    /\ th' = [th EXCEPT ![t].pc = "idle", ![t].res = "ok"]
    /\ mtx' = mtx \ {t}
    /\ UNCHANGED <<handlers, regLog, hcalls, emitsSince, contended, ops>>
    /\ UNCHANGED schedVars

\* A handler calls registerHandler or emit on the bus that is invoking it: the
\* nested lock_guard locks a std::mutex its own thread owns, which is undefined.
\* The builds either block for ever or throw std::system_error
\* (resource_deadlock_would_occur), which leaves the handler and emit.
Relock(t) ==
    /\ th[t].pc = "relock"
    /\ \E outcome \in {"block", "throw"} :
        IF outcome = "block"
        THEN /\ th' = [th EXCEPT ![t].pc = "stuck"]
             /\ UNCHANGED mtx
        ELSE /\ th' = [th EXCEPT ![t].pc = "idle", ![t].res = "threw"]
             /\ mtx' = mtx \ {t}
    /\ UNCHANGED <<handlers, regLog, hcalls, emitsSince, contended, ops>>
    /\ UNCHANGED schedVars

\* The steps a thread takes by itself once it is inside a call.
Proceed(t) ==
    \/ Lock(t)
    \/ RegisterBody(t)
    \/ EmitLookup(t)
    \/ EmitInvoke(t)
    \/ HandlerEnd(t)
    \/ EmitReturn(t)
    \/ Relock(t)

BusNext ==
    \E t \in Threads :
        \/ RegisterCall(t)
        \/ EmitCall(t)
        \/ Lock(t)
        \/ RegisterBody(t)
        \/ EmitLookup(t)
        \/ EmitInvoke(t)
        \/ HandlerEnd(t)
        \/ EmitReturn(t)
        \/ Relock(t)

Init == SchedInit /\ BusInit

Next ==
    \/ AddComponent
    \/ Run
    \/ LoopTest
    \/ TaskStep
    \/ Sleep
    \/ TimePasses

Spec == Init /\ [][Next]_vars

\* The steps the control thread takes by itself once it is inside run.
RunStep == LoopTest \/ TaskStep \/ Sleep

\* The calls main() makes: components at 500 ms and 700 ms, run(10).
MainAddComponent == AddComponentOf(MainPeriods)

MainRun == RunOf(MainCycleArgs)

MainNext ==
    \/ MainAddComponent
    \/ MainRun
    \/ LoopTest
    \/ TaskStep
    \/ Sleep
    \/ TimePasses

MainSpec == Init /\ [][MainNext]_vars

\* Periods of either sign: intervalMs is an int, and addTask takes any.
SignedPeriods == {0 - SleepMs, 0, 2 * SleepMs}

SignedAddComponent == AddComponentOf(SignedPeriods)

SignedNext ==
    \/ SignedAddComponent
    \/ Run
    \/ LoopTest
    \/ TaskStep
    \/ Sleep
    \/ TimePasses

SignedSpec == Init /\ [][SignedNext]_vars

\* Threads calling the EventBus.
BusSpec == Init /\ [][BusNext]_vars

\* The scheduler runs every thread that can take a step: a thread inside a call
\* keeps going whenever it is able to. (The calls themselves are the callers'
\* choice and finitely many, so no thread is kept from the mutex for ever.)
FairBusSpec == BusSpec /\ \A t \in Threads : WF_vars(Proceed(t))

TypeOK ==
    /\ Len(hist) = Len(tasks)

\* ================================================================= claims

\* The inner loop has passed every task of the current tick.
TickDone == spc = "tasks" /\ j > Len(tasks)

\* ----------------------------------------------------------------- C1
\* C1 (as claimed): on every component init() is called exactly once, and
\* before the first update() of that component, also when the same component
\* object is passed to addComponent more than once and when addComponent is
\* called between two run calls.
C1_InitOnceBeforeUpdate ==
    \A c \in Comps :
        /\ initCalls[c] <= 1
        /\ ~lateInit[c]
        /\ updated[c] => initCalls[c] = 1

\* ----------------------------------------------------------------- C2
\* C2: a task that was never invoked before a run(cycles >= 1) call is due at
\* the sampled time of the run's first tick (its next-due is its add time), and
\* is invoked on that tick: once the inner loop of the first tick has passed
\* it, it has been invoked.
C2_FreshTaskRunsOnFirstTick ==
    (spc = "tasks" /\ i = 0) =>
        \A k \in DOMAIN tasks :
            ~hist[k].old =>
                IF k < j THEN hist[k].tick /\ hist[k].runInv = 1
                ELSE Due(now, tasks[k]) /\ tasks[k].nextRun <= clock

\* Two fresh tasks were invoked on the first tick of a run that follows an
\* earlier run, while a task of the earlier run was not yet due again.
C2_Witness ==
    /\ TickDone /\ i = 0 /\ cycles >= 1
    /\ \E k \in DOMAIN tasks : ~hist[k].old /\ hist[k].tick /\ tasks[k].intervalMs > 0
    /\ \E k \in DOMAIN tasks : hist[k].old /\ ~hist[k].tick

\* ----------------------------------------------------------------- C3
\* C3: an invocation that returns on a tick sampled at `now` sets the task's
\* next-due to now + P; on every tick a task the inner loop has passed was
\* invoked if and only if it was due (so it runs again on the first tick
\* sampled at or after now + P and on none before); the sampled times of two
\* consecutive returned invocations of one task differ by at least P.
C3_DriftRescheduling ==
    \A k \in DOMAIN tasks :
        /\ Len(hist[k].last) > 0 => tasks[k].nextRun = hist[k].last[1] + tasks[k].intervalMs
        /\ Len(hist[k].gap) > 0 => hist[k].gap[1] >= tasks[k].intervalMs
        /\ (spc = "tasks" /\ k < j) =>
              IF hist[k].tick
              THEN hist[k].last = <<now>>
              ELSE ~Due(now, tasks[k])

\* A task with a positive period ran again later than one period after its
\* previous invocation (the drift case), and a task was skipped as not due.
C3_Witness ==
    /\ TickDone
    /\ \E k \in DOMAIN tasks :
        /\ tasks[k].intervalMs > 0
        /\ hist[k].tick
        /\ Len(hist[k].gap) > 0
        /\ hist[k].gap[1] > tasks[k].intervalMs
    /\ \E k \in DOMAIN tasks : ~hist[k].tick

\* ----------------------------------------------------------------- C4
\* The scenario of main(): A at 500 ms and B at 700 ms added at t = 0, run(10)
\* as the first run, with every sleep exactly 50 ms and no time spent
\* elsewhere, at the loop test that ends the run.
MainScenario ==
    /\ spc = "loop" /\ cycles = MainCycles /\ i = MainCycles
    /\ delays = 0 /\ clock = MainCycles * SleepMs
    /\ Len(tasks) = 2
    /\ ~hist[1].old /\ ~hist[2].old
    /\ tasks[1].func = "A" /\ tasks[1].intervalMs = PeriodA
    /\ tasks[2].func = "B" /\ tasks[2].intervalMs = PeriodB

\* C4 (as claimed): in the scenario A's update() is invoked exactly once
\* during the run and B's update() is invoked zero times.
C4_AOnceBNever ==
    MainScenario => hist[1].runInv = 1 /\ hist[2].runInv = 0

\* C4 (amended): in the scenario A's update() and B's update() are each
\* invoked exactly once during the run, both on its first tick (t = 0), and
\* are next due at 500 ms and at 700 ms.
C4_BothOnceOnFirstTick ==
    MainScenario =>
        /\ hist[1].runInv = 1 /\ hist[1].last = <<0>> /\ tasks[1].nextRun = PeriodA
        /\ hist[2].runInv = 1 /\ hist[2].last = <<0>> /\ tasks[2].nextRun = PeriodB

C4_Witness == MainScenario /\ result = "ok"

\* ---------------------------------------------------------------- C10
\* C10: an addComponent whose init() throws ends with the failure and leaves
\* the component list and the task list as they were; and update() is only
\* ever invoked on a component the Controller has stored.
C10_InitFailureAbortsRegistration ==
    [][ /\ (calls' # calls /\ result' = "initThrew") =>
              (components' = components /\ tasks' = tasks)
        /\ \A c \in Comps :
              (updated'[c] /\ ~updated[c]) => InSeq(c, components) ]_vars

\* An addComponent failed after another had succeeded, and a run has been
\* through a tick since.
C10_Witness ==
    /\ TickDone
    /\ initCalls["B"] >= 1
    /\ ~InSeq("B", components)
    /\ Len(components) >= 1
    /\ hist[1].tick

\* ----------------------------------------------------------------- C5
\* C5 (as claimed): every emit and registerHandler call eventually returns
\* (handlers terminate in themselves), also when a handler calls
\* registerHandler or emit on the bus that is invoking it.
C5_EveryCallReturns ==
    \A t \in Threads : (th[t].pc # "idle") ~> (th[t].pc = "idle")

\* ----------------------------------------------------------------- C6
\* An emit in progress has looked handler id up and not invoked it yet.
Pending(id) ==
    Cardinality({t \in Threads :
        /\ th[t].pc \in {"emit_iter", "in_handler"}
        /\ InSeq(id, th[t].snap)
        /\ ~InSeq(id, th[t].seen)})

\* Every handler registered for the type before id counts and returns.
CountingBefore(id) ==
    \A m \in 1..(id - 1) : regLog[m].type = regLog[id].type => regLog[m].kind = "count"

\* C6: whatever the interleaving of the emitting threads, a handler reached
\* through counting handlers only has been invoked once for every emit of
\* its type since its registration, less the emits still on their way to it:
\* with H handlers and N emits of the type finished, each handler was invoked
\* exactly N times (N*H invocations, none lost, none duplicated).
C6_NoLostDeliveries ==
    \A id \in DOMAIN regLog :
        CountingBefore(id) => hcalls[id] + Pending(id) = emitsSince[id]

\* Two emits of one type, called while the other was in progress, have both
\* returned; the two handlers of the type were invoked twice each.
C6_Witness ==
    /\ contended
    /\ \A t \in Threads : th[t].pc = "idle" /\ th[t].op = "emit" /\ th[t].res = "ok"
    /\ \E k \in Types :
        /\ Len(Registered(regLog, k)) = 2
        /\ \A id \in DOMAIN regLog :
            regLog[id].type = k /\ regLog[id].kind = "count" /\ hcalls[id] = 2

\* ----------------------------------------------------------------- C7
\* The thread is inside the code that reads or changes the registry.
InCS(t) == th[t].pc \in {"reg_cs", "emit_cs", "emit_iter", "in_handler", "relock", "stuck"}

\* C7: a thread inside registerHandler's append or emit's lookup and loop is
\* the one owner of the mutex (so at most one thread is), and the sequence an
\* emit is walking is the one it found at its lookup.
C7_RegistryUnderLock ==
    \A t \in Threads :
        /\ InCS(t) => mtx = {t}
        /\ th[t].pc \in {"emit_iter", "in_handler"} =>
              /\ th[t].type \in DOMAIN handlers
              /\ [n \in DOMAIN handlers[th[t].type] |-> handlers[th[t].type][n].id] = th[t].snap

\* An emit is in its loop while another thread waits in registerHandler to
\* append to the very sequence it is walking.
C7_Witness ==
    \E t, u \in Threads :
        /\ t # u
        /\ th[t].pc = "emit_iter" /\ th[t].idx = 2
        /\ th[u].pc = "reg_lock" /\ th[u].type = th[t].type

\* ----------------------------------------------------------------- C8
IsPrefix(s, r) == Len(s) <= Len(r) /\ \A n \in DOMAIN s : s[n] = r[n]

\* C8: the handlers an emit invokes are, in order, the handlers registered for
\* its type, in registration order and once per registration; when emit has
\* returned it has invoked all of them, and none of another type.
C8_DeliveryInRegistrationOrder ==
    \A t \in Threads :
        th[t].op = "emit" =>
            /\ IsPrefix(th[t].seen, th[t].snap)
            /\ (th[t].pc = "idle" /\ th[t].res = "ok") => th[t].seen = th[t].snap

\* An emit returned after invoking the two handlers of its type, a handler of
\* the other type being registered before them and not invoked.
C8_Witness ==
    \E t \in Threads :
        /\ th[t].pc = "idle" /\ th[t].op = "emit" /\ th[t].res = "ok"
        /\ Len(th[t].seen) = 2
        /\ Len(regLog) = 3
        /\ regLog[1].type # th[t].type
        /\ hcalls[1] = 0

\* ----------------------------------------------------------------- C9
\* C9: an emit whose type has no entry in the registry returns without
\* error, invokes no handler and leaves the registry as it was (no entry is
\* created for the type).
C9_EmitWithoutHandlersIsNoOp ==
    [][ \A t \in Threads :
          (th[t].pc = "emit_cs" /\ th'[t].pc # "emit_cs"
              /\ ~HasHandlers(handlers, th[t].type)) =>
            /\ handlers' = handlers
            /\ th[t].type \notin DOMAIN handlers'
            /\ hcalls' = hcalls
            /\ th'[t].pc = "idle" /\ th'[t].res = "ok" /\ th'[t].seen = <<>>
            /\ mtx' = {} ]_vars

\* An emit of a type without entry has returned, handlers of the other type
\* being registered and none invoked.
C9_Witness ==
    \E t \in Threads :
        /\ th[t].pc = "idle" /\ th[t].op = "emit" /\ th[t].res = "ok"
        /\ th[t].type \notin DOMAIN handlers
        /\ Len(regLog) >= 1
        /\ \A id \in DOMAIN hcalls : hcalls[id] = 0

\* ---------------------------------------------------------------- C11
\* C11: within a tick every task is tested against the one sampled `now`,
\* whatever the clock has become while earlier actions ran: a task the inner
\* loop has passed was invoked exactly if it was due at `now`, and was then
\* rescheduled from `now`; the tasks invoked on the tick were invoked one
\* after the other in registration order (each invocation is one step of the
\* one control thread, which returns before the next begins).
C11_OneNowRegistrationOrder ==
    /\ \A m \in DOMAIN tickLog : \A n \in DOMAIN tickLog : m < n => tickLog[m] < tickLog[n]
    /\ spc = "tasks" =>
         /\ \A m \in DOMAIN tickLog : tickLog[m] < j
         /\ \A k \in DOMAIN tasks :
              k < j =>
                IF InSeq(k, tickLog)
                THEN /\ hist[k].last = <<now>>
                     /\ tasks[k].nextRun = now + tasks[k].intervalMs
                ELSE ~Due(now, tasks[k])

\* A tick is over on which an earlier action was slow, so that a later task,
\* not due at the sampled time, was left out although the clock had reached
\* its due time when the loop came to it.
C11_Witness ==
    /\ TickDone
    /\ Len(tickLog) >= 1
    /\ \E k \in DOMAIN tasks :
        /\ ~InSeq(k, tickLog)
        /\ tickLog[1] < k
        /\ now < tasks[k].nextRun
        /\ tasks[k].nextRun <= clock

\* ---------------------------------------------------------------- C12
\* The steps a run call has left at most: the inner loop's passes and the
\* sleep of every tick still to do, and the loop test that ends the run.
Remaining ==
    IF spc = "idle" THEN 0
    ELSE (cycles - i) * (Len(tasks) + 2) + 1 - (IF spc = "tasks" THEN j ELSE 0)

\* C12: run terminates. Inside a run the control thread can always take its
\* next step, every step brings the run nearer to its end (the steps left
\* decrease and are never negative), the loop never goes beyond the requested
\* number of ticks, and a run that returns from the loop (no action threw)
\* has performed exactly `cycles` ticks.
C12_RunTerminates ==
    /\ [](i <= cycles /\ Remaining >= 0)
    /\ [](spc # "idle" => ENABLED RunStep)
    /\ [][ spc # "idle" => Remaining' < Remaining ]_vars
    /\ [][ (spc = "loop" /\ spc' = "idle") => (i = cycles /\ i' = cycles /\ result' = "ok") ]_vars

\* A run of three ticks over two tasks has returned from the loop.
C12_Witness ==
    /\ spc = "idle" /\ result = "ok"
    /\ cycles = 3 /\ i = 3
    /\ Len(tasks) >= 2
    /\ \A k \in DOMAIN tasks : hist[k].runInv >= 1

\* ---------------------------------------------------------------- C13
\* C13: run(0) does nothing. The call enters no tick (no task is examined, no
\* sleep), samples no time, and its only step after the entry is the return:
\* tasks, clock and the components' update marks are as they were.
C13_RunZeroDoesNothing ==
    /\ [](cycles = 0 => spc # "tasks")
    /\ [][ (spc = "idle" /\ spc' = "loop" /\ cycles' = 0) =>
             UNCHANGED <<tasks, clock, now, updated, components>> ]_vars
    /\ [][ (spc = "loop" /\ cycles = 0) =>
             /\ spc' = "idle"
             /\ result' = "ok"
             /\ UNCHANGED <<tasks, clock, now, i, updated, components, hist, delays>> ]_vars

\* run(0) has returned while a task that an earlier run invoked was due again.
C13_Witness ==
    /\ spc = "idle"
    /\ cycles = 0
    /\ result = "ok"
    /\ \E k \in DOMAIN tasks :
        /\ hist[k].old
        /\ hist[k].runInv = 0
        /\ tasks[k].intervalMs > 0
        /\ Due(clock, tasks[k])

\* ---------------------------------------------------------------- C14
\* C14: the component list and the task list have the same length, the n-th
\* task's action updates the n-th stored component, and the stored components
\* are, in order, the components whose init() completed.
C14_ListsAligned ==
    /\ Len(components) = Len(tasks)
    /\ \A n \in DOMAIN tasks : tasks[n].func = components[n]
    /\ components = initOrder

\* Two different components have been registered, one after the other.
C14_Witness ==
    /\ Len(components) >= 2
    /\ components[1] # components[2]
    /\ initCalls[components[1]] = 1
    /\ initCalls[components[2]] = 1

\* ---------------------------------------------------------------- C15
\* The task list after the step is the list before it with one record appended.
AppendedOne == Len(tasks') = Len(tasks) + 1 /\ SubSeq(tasks', 1, Len(tasks)) = tasks

\* C15: frame of the task records. The list never shrinks; it grows only by an
\* addComponent call, by one record at the back, with every existing record
\* unchanged; no step changes a task's action or period; and a task's nextRun
\* changes only in a tick, for the task the inner loop is at, when that task
\* was due at the tick's sampled time and its action was invoked.
C15_TaskFrame ==
    /\ [][ Len(tasks') >= Len(tasks) ]_vars
    /\ [][ Len(tasks') # Len(tasks) => (spc = "idle" /\ spc' = "idle" /\ AppendedOne) ]_vars
    /\ [][ \A k \in DOMAIN tasks :
             /\ tasks'[k].func = tasks[k].func
             /\ tasks'[k].intervalMs = tasks[k].intervalMs
             /\ tasks'[k].nextRun # tasks[k].nextRun =>
                  /\ spc = "tasks"
                  /\ k = j
                  /\ Due(now, tasks[k])
                  /\ hist'[k].runInv = hist[k].runInv + 1 ]_vars

\* A second task was added after the first had been invoked and rescheduled,
\* and a tick has since passed over a task that was not due.
C15_Witness ==
    /\ Len(tasks) >= 2
    /\ hist[1].old
    /\ ~hist[2].old
    /\ tasks[1].nextRun > tasks[2].nextRun
    /\ TickDone
    /\ ~hist[1].tick
    /\ hist[2].tick

\* ---------------------------------------------------------------- C16
\* C16: no catch-up execution. Within a tick no task is invoked twice, however
\* far the sampled time is past its due time; so during a run call a task has
\* been invoked at most once per tick begun (i ticks are complete, and one more
\* may be under way or cut short by a throw), hence at most `cycles` times.
C16_NoCatchUp ==
    /\ \A m \in DOMAIN tickLog : \A n \in DOMAIN tickLog :
         tickLog[m] = tickLog[n] => m = n
    /\ \A k \in DOMAIN tasks :
         /\ hist[k].runInv <= i + 1
         /\ spc = "loop" => hist[k].runInv <= i
         /\ hist[k].runInv <= cycles

\* A tick found a task three or more periods past its due time (a long gap
\* between two run calls), and has invoked it once.
C16_Witness ==
    /\ TickDone
    /\ \E k \in DOMAIN tasks :
        /\ tasks[k].intervalMs > 0
        /\ hist[k].tick
        /\ hist[k].runInv = 1
        /\ Len(hist[k].gap) = 1
        /\ hist[k].gap[1] >= 3 * tasks[k].intervalMs

\* ---------------------------------------------------------------- C17
\* A handler invoked by the thread's emit is executing (it has been entered and
\* has neither returned nor thrown).
Executing(t) == th[t].pc \in {"in_handler", "relock", "stuck"}

\* The thread's emit is in its loop over the handlers.
InLoop(t) == th[t].pc = "emit_iter" \/ Executing(t)

\* C17: handler executions are serialized across threads. At most one handler
\* of the bus is executing, the thread executing it holds the mutex, and while
\* one emit is in its loop over the handlers no other emit is (the handlers of
\* two concurrent emits do not interleave).
C17_HandlersSerialized ==
    \A t \in Threads :
        /\ Executing(t) => mtx = {t}
        /\ InLoop(t) => \A u \in Threads \ {t} : ~InLoop(u)

\* The second handler of an emit is executing while another thread's emit of
\* the same type waits for the mutex.
C17_Witness ==
    \E t, u \in Threads :
        /\ t # u
        /\ th[t].pc = "in_handler" /\ th[t].idx = 2
        /\ th[u].pc = "emit_lock" /\ th[u].type = th[t].type

\* ---------------------------------------------------------------- C18
\* The thread's last call was an emit that a handler's exception left.
Threw(t) == th[t].pc = "idle" /\ th[t].op = "emit" /\ th[t].res = "threw"

\* What the exception of a handler does to the bus: the step in which it leaves
\* emit ends the call with the failure, invokes nothing more, leaves the
\* registry as it was and unlocks the mutex; the handlers the emit invoked are
\* those registered for the type up to the failing one, and none after it.
ThrowReleasesLock ==
    /\ [][ \A t \in Threads :
             (Executing(t) /\ th'[t].pc = "idle") =>
                /\ th'[t].res = "threw"
                /\ th'[t].seen = th[t].seen
                /\ hcalls' = hcalls
                /\ handlers' = handlers
                /\ mtx' = {} ]_vars
    /\ [](\A t \in Threads :
             Threw(t) =>
                /\ Len(th[t].seen) >= 1
                /\ IsPrefix(th[t].seen, th[t].snap)
                /\ regLog[th[t].seen[Len(th[t].seen)]].kind # "count")

\* C18 (as claimed): when a handler throws during emit, the exception leaves
\* emit, the handlers after it are not invoked, the registry is unchanged and
\* the mutex is released, and every call in progress after that, from any
\* thread, completes.
C18_CallsCompleteAfterThrow ==
    /\ ThrowReleasesLock
    /\ \A t \in Threads : \A u \in Threads :
         []((/\ Threw(u)
             /\ regLog[th[u].seen[Len(th[u].seen)]].kind = "throw"
             /\ th[t].pc # "idle") => <>(th[t].pc = "idle"))

\* ---------------------------------------------------------------- C19
\* The last run call was left by the exception of a task's action, and no call
\* has been made since.
RunThrew == spc = "idle" /\ result = "updateThrew"

\* C19: when a task's action throws, run stops at once with the failure: that
\* step leaves the loop counter and the task records as they were and invokes
\* no other task; afterwards no tick is under way, the failing task is still
\* due (its nextRun was not advanced), no task after it was invoked on that
\* tick, and the tasks invoked before it on that tick keep the nextRun the
\* tick gave them.
C19_ThrowStopsRun ==
    /\ [][ (spc = "tasks" /\ spc' = "idle") =>
             /\ result' = "updateThrew"
             /\ i' = i
             /\ tasks' = tasks
             /\ Due(now, tasks[j])
             /\ tickLog' = Append(tickLog, j)
             /\ \A k \in DOMAIN hist : k # j => hist'[k] = hist[k] ]_vars
    /\ [](RunThrew =>
             /\ Len(tickLog) >= 1
             /\ LET f == tickLog[Len(tickLog)] IN
                  /\ Due(clock, tasks[f])
                  /\ hist[f].tick
                  /\ \A k \in DOMAIN tasks : k > f => ~hist[k].tick
                  /\ \A k \in DOMAIN tasks :
                       (k < f /\ hist[k].tick) =>
                           tasks[k].nextRun = hist[k].last[1] + tasks[k].intervalMs)
    /\ [](result = "updateThrew" => spc = "idle")

\* A run of three ticks was left on a tick by the second task it invoked, a
\* third task being due and not invoked.
C19_Witness ==
    /\ RunThrew
    /\ cycles = 3
    /\ Len(tickLog) = 2
    /\ tasks[tickLog[1]].intervalMs > 0
    /\ \E k \in DOMAIN tasks :
        /\ k > tickLog[2]
        /\ Due(clock, tasks[k])
        /\ ~hist[k].tick

\* ---------------------------------------------------------------- C20
\* C20: at the end of every tick a task with a positive period has its nextRun
\* strictly after the tick's sampled time, invoked or not; a task with a period
\* of zero or less was due and invoked on the tick, as on every tick of the
\* run before it.
C20_DueAfterTick ==
    TickDone =>
        \A k \in DOMAIN tasks :
            IF tasks[k].intervalMs > 0
            THEN tasks[k].nextRun > now
            ELSE /\ hist[k].tick
                 /\ hist[k].runInv = i + 1
                 /\ tasks[k].nextRun <= now

\* The second tick of a run is over: a task with a negative period was invoked
\* on both ticks, a task with a positive period on the first only.
C20_Witness ==
    /\ TickDone
    /\ i = 1
    /\ \E k \in DOMAIN tasks : tasks[k].intervalMs < 0 /\ hist[k].runInv = 2
    /\ \E k \in DOMAIN tasks :
        tasks[k].intervalMs > 0 /\ hist[k].runInv = 1 /\ ~hist[k].tick

====
